---- MODULE Spec2Model ----
(***************************************************************************)
(* A model of graphgen.py: the extraction of connections and dependencies  *)
(* from a graph (extract_connections), the wave propagation that assigns a *)
(* level to every node (assign_level_to_nodes_inplace), the rectangle      *)
(* geometry (RectBox) and the force simulation (GraphAnimation).           *)
(*                                                                         *)
(* Node ids are the Python ids (0-based): a graph of n nodes is a function *)
(* on 0..n-1.  Python lists are sequences.                                 *)
(***************************************************************************)
EXTENDS Integers, Sequences, FiniteSets, TLC

VARIABLES
    graph,          \* Graph: node index -> Node(node_id, related_to, depends_on, level)
    pc,             \* position of the running function
    connections,    \* Connections returned by extract_connections
    dependencies,   \* dependencies returned by extract_connections
    child_map,      \* assign_level_to_nodes_inplace: child_map
    unassigned,     \* assign_level_to_nodes_inplace: unassigned
    step,           \* assign_level_to_nodes_inplace: waves run so far (_step + 1)
    config,         \* GraphAnimation.config
    node_boxes,     \* GraphAnimation.node_boxes: node index -> RectBox
    ticks,          \* calls of run_simulation completed
    rng_calls,      \* calls of get_random_unit_vector (draws on numpy's generator)
    ret             \* values returned by the RectBox and force functions called directly

vars == <<graph, pc, connections, dependencies, child_map, unassigned, step,
          config, node_boxes, ticks, rng_calls, ret>>

simVars == <<config, node_boxes, ticks, rng_calls, ret>>

(***************************************************************************)
(* Bounds of the model.                                                    *)
(***************************************************************************)
MaxNodes == 2        \* nodes of a graph handed to extract_connections
MaxRefs == 2         \* ids listed in related_to and depends_on, all nodes together
MaxLevelNodes == 3   \* nodes of a graph handed to assign_level_to_nodes_inplace
MaxDeps == 3         \* ids listed in depends_on, all nodes together

(***************************************************************************)
(* Helpers for Python built-ins.                                           *)
(***************************************************************************)
Min2(a, b) == IF b < a THEN b ELSE a
Max2(a, b) == IF b > a THEN b ELSE a

Range(s) == {s[k] : k \in 1..Len(s)}

\* the orders in which list(a_set) may enumerate the set
ListsOfSet(S) == {f \in [1..Cardinality(S) -> S] : \A i, j \in 1..Cardinality(S) : f[i] = f[j] => i = j}

PairLess(p, q) == p[1] < q[1] \/ (p[1] = q[1] /\ p[2] < q[2])

RECURSIVE sorted(_)
sorted(S) ==
    IF S = {} THEN <<>>
    ELSE LET least == CHOOSE p \in S : \A q \in S \ {p} : PairLess(p, q)
         IN <<least>> \o sorted(S \ {least})

GraphLen(g) == Cardinality(DOMAIN g)

(***************************************************************************)
(* Node and the graphs a caller can build.                                 *)
(***************************************************************************)
Node(node_id, related_to, depends_on, level) ==
    [node_id |-> node_id, related_to |-> related_to, depends_on |-> depends_on, level |-> level]

\* a flat listing of the ids the caller puts in the lists: [node, kind, id]
RefRecs(n, Kinds, Ids) == [node : 0..(n - 1), kind : Kinds, id : Ids]

RefSeqs(n, Kinds, Ids, maxRefs) == UNION {[1..k -> RefRecs(n, Kinds, Ids)] : k \in 0..maxRefs}

ListOf(refs, i, kind) ==
    LET sel == SelectSeq(refs, LAMBDA r : r.node = i /\ r.kind = kind)
    IN [k \in 1..Len(sel) |-> sel[k].id]

BuildGraph(n, declared, refs, level) ==
    [i \in 0..(n - 1) |->
        Node(declared[i], ListOf(refs, i, "related_to"), ListOf(refs, i, "depends_on"), level)]

(***************************************************************************)
(* extract_connections                                                     *)
(***************************************************************************)
no_node_defined_mut(id, n) == id > n
\* lines 98 and 101: the id has no Node defined
no_node_defined(id, n) == id >= n

RECURSIVE scan_related(_, _, _, _)
scan_related(g, node_id, k, unique_connections) ==
    IF k > Len(g[node_id].related_to)
    THEN [raised |-> FALSE, unique_connections |-> unique_connections]
    ELSE LET relative == g[node_id].related_to[k]
             smaller == Min2(node_id, relative)
             bigger == Max2(node_id, relative)
             added == unique_connections \cup {<<smaller, bigger>>}
         IN IF no_node_defined(bigger, GraphLen(g))
            THEN [raised |-> TRUE, unique_connections |-> added]
            ELSE scan_related(g, node_id, k + 1, added)

RECURSIVE scan_depends(_, _, _, _)
scan_depends(g, node_id, k, deps) ==
    IF k > Len(g[node_id].depends_on)
    THEN [raised |-> FALSE, dependencies |-> deps]
    ELSE LET dependency == g[node_id].depends_on[k]
         IN IF no_node_defined(dependency, GraphLen(g))
            THEN [raised |-> TRUE, dependencies |-> deps]
            ELSE scan_depends(g, node_id, k + 1, deps \cup {<<node_id, dependency>>})

RECURSIVE scan_nodes(_, _, _, _)
scan_nodes(g, node_id, unique_connections, deps) ==
    IF node_id >= GraphLen(g)
    THEN [raised |-> FALSE, unique_connections |-> unique_connections, dependencies |-> deps]
    ELSE IF g[node_id].node_id # node_id
    THEN [raised |-> TRUE, unique_connections |-> unique_connections, dependencies |-> deps]
    ELSE LET rel == scan_related(g, node_id, 1, unique_connections)
             dep == scan_depends(g, node_id, 1, deps)
         IN IF rel.raised \/ dep.raised
            THEN [raised |-> TRUE, unique_connections |-> rel.unique_connections,
                  dependencies |-> dep.dependencies]
            ELSE scan_nodes(g, node_id + 1, rel.unique_connections, dep.dependencies)

extract_connections(g) == scan_nodes(g, 0, {}, {})

IdleLevel ==
    /\ child_map = <<>>
    /\ unassigned = <<>>
    /\ step = 0

IdleSim ==
    /\ config = <<>>
    /\ node_boxes = <<>>
    /\ ticks = 0
    /\ rng_calls = 0
    /\ ret = <<>>

InitExtract ==
    /\ \E n \in 1..MaxNodes :
         \E declared \in [0..(n - 1) -> 0..n] :
           \E refs \in RefSeqs(n, {"related_to", "depends_on"}, (-1)..n, MaxRefs) :
             /\ \A i \in 0..(n - 1) : declared[i] \in {i, i + 1}
             /\ graph = BuildGraph(n, declared, refs, 0)
    /\ pc = "extract_connections"
    /\ connections = <<>>
    /\ dependencies = <<>>
    /\ IdleLevel
    /\ IdleSim

ExtractRaises ==
    /\ pc = "extract_connections"
    /\ extract_connections(graph).raised
    /\ pc' = "raised"
    /\ UNCHANGED <<graph, connections, dependencies, child_map, unassigned, step, simVars>>

ExtractReturns ==
    /\ pc = "extract_connections"
    /\ ~extract_connections(graph).raised
    /\ connections' = sorted(extract_connections(graph).unique_connections)
    /\ dependencies' \in ListsOfSet(extract_connections(graph).dependencies)
    /\ pc' = "returned"
    /\ UNCHANGED <<graph, child_map, unassigned, step, simVars>>

NextExtract == ExtractRaises \/ ExtractReturns

SpecExtract == InitExtract /\ [][NextExtract]_vars

(***************************************************************************)
(* Claims about extract_connections                                        *)
(***************************************************************************)
\* C1: whenever extract_connections returns, the connection list has no
\* duplicate pair and no self-referential pair, and every pair (a, b) in it
\* satisfies 0 <= a < b < n.
C1_ConnectionsWellFormed ==
    pc = "returned" =>
        /\ \A i, j \in 1..Len(connections) : connections[i] = connections[j] => i = j
        /\ \A k \in 1..Len(connections) :
             /\ 0 <= connections[k][1]
             /\ connections[k][1] < connections[k][2]
             /\ connections[k][2] < GraphLen(graph)

\* the condition under which C2 says the validation error is raised
SomeIdMismatchOrTooBig(g) ==
    \E i \in DOMAIN g :
        \/ g[i].node_id # i
        \/ \E id \in Range(g[i].related_to) \cup Range(g[i].depends_on) : id >= GraphLen(g)

\* C2: extract_connections raises if and only if some node's declared
\* node_id differs from its index or some id in a related_to or depends_on
\* list is >= n; on every other graph it returns normally.
C2_RaisesIffInvalid ==
    pc \in {"returned", "raised"} => (pc = "raised" <=> SomeIdMismatchOrTooBig(graph))

\* C2 witness: the error was raised for an id equal to n in a related_to
\* list, every declared node_id being right.
C2_Witness ==
    /\ pc = "raised"
    /\ \A i \in DOMAIN graph : graph[i].node_id = i /\ graph[i].depends_on = <<>>
    /\ \E i \in DOMAIN graph : GraphLen(graph) \in Range(graph[i].related_to)

(***************************************************************************)
(* assign_level_to_nodes_inplace                                           *)
(***************************************************************************)
\* lines 396-399: child_map[parent] lists the nodes that depend on parent,
\* in the order of the nodes and of their depends_on lists
RECURSIVE children_from(_, _, _, _)
children_from(g, parent, node_id, k) ==
    IF node_id >= GraphLen(g) THEN <<>>
    ELSE IF k > Len(g[node_id].depends_on) THEN children_from(g, parent, node_id + 1, 1)
    ELSE (IF g[node_id].depends_on[k] = parent THEN <<g[node_id].node_id>> ELSE <<>>)
         \o children_from(g, parent, node_id, k + 1)

build_child_map(g) == [parent \in DOMAIN g |-> children_from(g, parent, 0, 1)]

reset_levels_mut(g) == g
\* lines 402-403
reset_levels(g) == [i \in DOMAIN g |-> [g[i] EXCEPT !.level = 0]]

max_steps_mut(g) == GraphLen(g)
\* line 408
max_steps(g) == GraphLen(g) + 1

child_level_mut(level) == level
\* line 414: the level written to a child
child_level(level) == level + 1

\* lines 413-415: the children of one node of the wave
RECURSIVE visit_children(_, _, _, _, _)
visit_children(g, children, k, level, tainted) ==
    IF k > Len(children) THEN [graph |-> g, tainted |-> tainted]
    ELSE LET child_id == children[k]
         IN visit_children([g EXCEPT ![child_id].level = child_level(level)],
                           children, k + 1, level, Append(tainted, child_id))

\* lines 411-415: one wave over the list unassigned
RECURSIVE run_wave(_, _, _, _, _)
run_wave(g, cmap, wave, i, tainted) ==
    IF i > Len(wave) THEN [graph |-> g, tainted |-> tainted]
    ELSE LET node_id == wave[i]
             level == g[node_id].level
             done == visit_children(g, cmap[node_id], 1, level, tainted)
         IN run_wave(done.graph, cmap, wave, i + 1, done.tainted)

IdleExtract ==
    /\ connections = <<>>
    /\ dependencies = <<>>

\* graphs that pass the validation of extract_connections, with ids >= 0;
\* the level field holds whatever the caller constructed the nodes with
InitLevel ==
    /\ \E n \in 1..MaxLevelNodes :
         \E refs \in RefSeqs(n, {"depends_on"}, 0..(n - 1), MaxDeps) :
           \E level \in {0, 5} :
             graph = BuildGraph(n, [i \in 0..(n - 1) |-> i], refs, level)
    /\ pc = "assign_level"
    /\ IdleExtract
    /\ IdleLevel
    /\ IdleSim

\* lines 396-408
StartLevels ==
    /\ pc = "assign_level"
    /\ child_map' = build_child_map(graph)
    /\ graph' = reset_levels(graph)
    /\ unassigned' = [k \in 1..GraphLen(graph) |-> graph[k - 1].node_id]
    /\ step' = 0
    /\ pc' = "waves"
    /\ UNCHANGED <<connections, dependencies, simVars>>

\* lines 409-420: one iteration of the loop over _step
Wave ==
    /\ pc = "waves"
    /\ step < max_steps(graph)
    /\ LET done == run_wave(graph, child_map, unassigned, 1, <<>>)
       IN /\ graph' = done.graph
          /\ unassigned' \in ListsOfSet(Range(done.tainted))
    /\ step' = step + 1
    /\ pc' = IF unassigned' = <<>> \/ step' = max_steps(graph) THEN "after_loop" ELSE "waves"
    /\ UNCHANGED <<connections, dependencies, child_map, simVars>>

\* lines 422-423
RaiseCycle ==
    /\ pc = "after_loop"
    /\ unassigned # <<>>
    /\ pc' = "raised"
    /\ UNCHANGED <<graph, connections, dependencies, child_map, unassigned, step, simVars>>

\* line 425
ReturnLevels ==
    /\ pc = "after_loop"
    /\ unassigned = <<>>
    /\ pc' = "returned"
    /\ UNCHANGED <<graph, connections, dependencies, child_map, unassigned, step, simVars>>

NextLevel == StartLevels \/ Wave \/ RaiseCycle \/ ReturnLevels

SpecLevel == InitLevel /\ [][NextLevel]_vars

(***************************************************************************)
(* Claims about assign_level_to_nodes_inplace                              *)
(***************************************************************************)
Parents(g, v) == Range(g[v].depends_on)

\* the nodes v depends on, directly or through at most k dependency edges
RECURSIVE AncestorsWithin(_, _, _)
AncestorsWithin(g, v, k) ==
    IF k = 1 THEN Parents(g, v)
    ELSE LET near == AncestorsWithin(g, v, k - 1)
         IN near \cup UNION {Parents(g, w) : w \in near}

Ancestors(g, v) == AncestorsWithin(g, v, GraphLen(g))

OnCycle(g, v) == v \in Ancestors(g, v)

HasCycle(g) == \E v \in DOMAIN g : OnCycle(g, v)

\* on a dependency cycle, or a direct or transitive dependent of a node on one
CyclicOrDownstream(g) ==
    {v \in DOMAIN g : OnCycle(g, v) \/ \E c \in Ancestors(g, v) : OnCycle(g, c)}

SetMax(S) == CHOOSE m \in S : \A x \in S : x <= m

\* the length of the longest dependency chain ending at v (acyclic graphs)
RECURSIVE LongestChain(_, _)
LongestChain(g, v) ==
    IF Parents(g, v) = {} THEN 0
    ELSE 1 + SetMax({LongestChain(g, p) : p \in Parents(g, v)})

\* C3: on a graph whose depends_on relation has a cycle the function does
\* not return; it raises after n+1 waves, and the ids it carries are exactly
\* the nodes on a cycle or downstream of one.
C3_CycleRaisesWithCyclicSet ==
    HasCycle(graph) =>
        /\ pc # "returned"
        /\ pc = "after_loop" => unassigned # <<>>
        /\ pc = "raised" =>
             /\ step = GraphLen(graph) + 1
             /\ Range(unassigned) = CyclicOrDownstream(graph)

\* C3 witness: the cycle 0 -> 1 -> 2 -> 0 raised with the ids {0, 1, 2}.
C3_Witness ==
    /\ pc = "raised"
    /\ GraphLen(graph) = 3
    /\ graph[0].depends_on = <<1>>
    /\ graph[1].depends_on = <<2>>
    /\ graph[2].depends_on = <<0>>
    /\ Range(unassigned) = {0, 1, 2}

\* C4: on an acyclic graph the function never raises; it returns after an
\* empty wave, within n+1 waves, and every node with an empty depends_on
\* has level 0.
C4_AcyclicReturns ==
    ~HasCycle(graph) =>
        /\ pc # "raised"
        /\ pc = "after_loop" => unassigned = <<>>
        /\ pc = "returned" =>
             /\ unassigned = <<>>
             /\ step <= GraphLen(graph) + 1
             /\ \A v \in DOMAIN graph : graph[v].depends_on = <<>> => graph[v].level = 0

\* C4 witness: a chain of three nodes, constructed with non-zero levels,
\* returned after three waves.
C4_Witness ==
    /\ pc = "returned"
    /\ GraphLen(graph) = 3
    /\ graph[0].depends_on = <<1>>
    /\ graph[1].depends_on = <<2>>
    /\ graph[2].depends_on = <<>>
    /\ step = 3

\* C9: on an acyclic graph, whatever the numbering and the order inside a
\* wave, every node's final level is the length of the longest dependency
\* chain ending at it, so a child's level exceeds each of its parents'.
C9_LevelIsLongestChain ==
    (~HasCycle(graph) /\ pc = "returned") =>
        /\ \A v \in DOMAIN graph : graph[v].level = LongestChain(graph, v)
        /\ \A v \in DOMAIN graph : \A p \in Parents(graph, v) : graph[v].level > graph[p].level

\* C9 witness: node 0 is reached by a chain of length 1 and by one of
\* length 2 (0 depends on 1 and 2, 1 depends on 2) and ends at level 2.
C9_Witness ==
    /\ pc = "returned"
    /\ GraphLen(graph) = 3
    /\ Range(graph[0].depends_on) = {1, 2}
    /\ graph[1].depends_on = <<2>>
    /\ graph[2].depends_on = <<>>
    /\ graph[0].level = 2

\* C9 witness for the chain of the specification: 1 depends on 0 and 2
\* depends on 1 yields the levels 0, 1, 2.
C9_ChainWitness ==
    /\ pc = "returned"
    /\ GraphLen(graph) = 3
    /\ graph[0].depends_on = <<>>
    /\ graph[1].depends_on = <<0>>
    /\ graph[2].depends_on = <<1>>
    /\ graph[0].level = 0 /\ graph[1].level = 1 /\ graph[2].level = 2

(***************************************************************************)
(* float.  A Python float is a binary floating-point number: a significand *)
(* of a fixed number of bits times a power of two, every arithmetic result *)
(* rounded to the nearest such number, ties to even.  The model keeps that *)
(* arithmetic and shortens the significand from 53 bits to Precision bits. *)
(* The value of [m |-> m, e |-> e] is m * 2^e; a non-zero number has       *)
(* 2^(Precision-1) <= |m| < 2^Precision, so equal values are equal records.*)
(* Exponents are not bounded: no overflow to infinity, no underflow.       *)
(***************************************************************************)
Precision == 11

Abs(n) == IF n < 0 THEN -n ELSE n

Sign(n) == IF n < 0 THEN -1 ELSE 1

RECURSIVE BitLen(_)
BitLen(n) == IF n = 0 THEN 0 ELSE 1 + BitLen(n \div 2)

Zero == [m |-> 0, e |-> 0]

\* Python binds a value to a name once and reads the name many times
Let(value, Body(_)) == Body(value)

\* a \div 2^s, rounded to nearest, ties to even, for s > 0
RoundedQuotient(a, s) ==
    LET q == a \div (2 ^ s)
        r == a % (2 ^ s)
        half == 2 ^ (s - 1)
    IN IF r > half \/ (r = half /\ q % 2 = 1) THEN q + 1 ELSE q

\* m * 2^e rounded to Precision bits, to nearest, ties to even
Round(m, e) ==
    Let(BitLen(Abs(m)) - Precision, LAMBDA s :
        IF m = 0 THEN Zero
        ELSE IF s <= 0 THEN [m |-> m * (2 ^ (-s)), e |-> e + s]
        ELSE Let(RoundedQuotient(Abs(m), s), LAMBDA q2 :
                 IF q2 = 2 ^ Precision
                 THEN [m |-> Sign(m) * (2 ^ (Precision - 1)), e |-> e + s + 1]
                 ELSE [m |-> Sign(m) * q2, e |-> e + s]))

FromInt(n) == Round(n, 0)

One == FromInt(1)

FNeg(a) == [m |-> -a.m, e |-> a.e]

FAbs(a) == [m |-> Abs(a.m), e |-> a.e]

\* a + b: exact sum, rounded once.  An operand below an eighth of the
\* other's last place does not change the rounded sum.
FAdd(a, b) ==
    IF a.m = 0 THEN b
    ELSE IF b.m = 0 THEN a
    ELSE LET hi == IF a.e >= b.e THEN a ELSE b
             lo == IF a.e >= b.e THEN b ELSE a
             d == hi.e - lo.e
         IN IF d > Precision + 2 THEN hi
            ELSE Round(hi.m * (2 ^ d) + lo.m, lo.e)

FSub(a, b) == FAdd(a, FNeg(b))

FMul(a, b) == Round(a.m * b.m, a.e + b.e)

\* a / b for b # 0: the quotient to Precision + 2 bits and a sticky bit for
\* the remainder, rounded once
FDiv(a, b) ==
    LET num == Abs(a.m) * (2 ^ (Precision + 2))
        q == num \div Abs(b.m)
        sticky == IF num % Abs(b.m) = 0 THEN 0 ELSE 1
    IN Round(Sign(a.m) * Sign(b.m) * (2 * q + sticky), a.e - b.e - (Precision + 2) - 1)

RECURSIVE IntSqrtBetween(_, _, _)
IntSqrtBetween(n, lo, hi) ==
    IF lo = hi THEN lo
    ELSE LET mid == (lo + hi + 1) \div 2
         IN IF mid * mid <= n THEN IntSqrtBetween(n, mid, hi)
            ELSE IntSqrtBetween(n, lo, mid - 1)

\* a ** 0.5 for a >= 0: the root to Precision + 2 bits and a sticky bit
FSqrt(a) ==
    LET k == IF (a.e - (Precision + 3)) % 2 = 0 THEN Precision + 3 ELSE Precision + 4
        big == a.m * (2 ^ k)
        root == IntSqrtBetween(big, 0, 2 ^ (Precision + 2))
        sticky == IF root * root = big THEN 0 ELSE 1
    IN IF a.m = 0 THEN Zero
       ELSE Round(2 * root + sticky, ((a.e - k) \div 2) - 1)

FLt(a, b) == FSub(a, b).m < 0

FLe(a, b) == FSub(a, b).m <= 0

\* the float nearest to the decimal literal num/den
Dec(num, den) == FDiv(FromInt(num), FromInt(den))

\* Python's min(a, b) and max(a, b) of two arguments
PyMin(a, b) == IF FLt(b, a) THEN b ELSE a

PyMax(a, b) == IF FLt(a, b) THEN b ELSE a

\* line 11
EPS == Dec(1, 10000)

(***************************************************************************)
(* Vec2D                                                                   *)
(***************************************************************************)
Vec2D(x, y) == [x |-> x, y |-> y]

\* Vec2D(): both fields default to 0.0
Vec2D0 == Vec2D(Zero, Zero)

\* Vec2D.add: the value self holds after the call
add(self, other) == Vec2D(FAdd(self.x, other.x), FAdd(self.y, other.y))

\* Vec2D.scale: the value self holds after the call
scale(self, alpha) == Vec2D(FMul(self.x, alpha), FMul(self.y, alpha))

\* Vec2D.l2norm
l2norm(self) == FSqrt(FAdd(FMul(self.x, self.x), FMul(self.y, self.y)))

(***************************************************************************)
(* RectBox                                                                 *)
(***************************************************************************)
RectBox(position, velocity, acceleration, shape, force) ==
    [position |-> position, velocity |-> velocity, acceleration |-> acceleration,
     shape |-> shape, force |-> force]

get_center(self) ==
    Vec2D(FAdd(self.position.x, FDiv(self.shape.x, FromInt(2))),
          FAdd(self.position.y, FDiv(self.shape.y, FromInt(2))))

is_overlapping_mut(self, other) ==
    ~ \/ FLt(FAdd(self.position.x, self.shape.x), other.position.x)
      \/ FLt(other.position.x, self.position.x)
      \/ FLt(FAdd(self.position.y, self.shape.y), other.position.y)
      \/ FLt(FAdd(other.position.y, other.shape.y), self.position.y)
\* a > b is written FLt(b, a)
is_overlapping(self, other) ==
    ~ \/ FLt(FAdd(self.position.x, self.shape.x), other.position.x)
      \/ FLt(FAdd(other.position.x, other.shape.x), self.position.x)
      \/ FLt(FAdd(self.position.y, self.shape.y), other.position.y)
      \/ FLt(FAdd(other.position.y, other.shape.y), self.position.y)

(***************************************************************************)
(* Config                                                                  *)
(***************************************************************************)
\* lines 129-141: the default values (box_color plays no part)
DefaultConfig ==
    [box_width |-> FromInt(2), box_height |-> FromInt(1), attraction_coef |-> FromInt(1),
     repulsion_coef |-> FromInt(50), repulsion_xscale |-> FromInt(4),
     level_coef |-> FromInt(5), level_offset |-> FromInt(3), overlap_scale |-> FromInt(2),
     slowing_coef |-> Dec(5, 10), canvas_size |-> FromInt(20), time_step |-> Dec(1, 10),
     mass |-> FromInt(1)]

(***************************************************************************)
(* GraphAnimation: the forces                                              *)
(***************************************************************************)
\* lines 251-258 and 310-317: p1 - p2, its norm floored at EPS, its direction
center_difference(b1, b2) ==
    Let(add(get_center(b1), scale(get_center(b2), FromInt(-1))), LAMBDA diff :
    Let(l2norm(diff), LAMBDA norm :
    Let(IF FLt(norm, EPS) THEN EPS ELSE norm, LAMBDA diff_norm :
        [diff |-> diff, diff_norm |-> diff_norm,
         diff_unit |-> scale(diff, FDiv(One, diff_norm))])))

force_magnitude_mut(coef, diff_norm) == coef
\* line 260
force_magnitude(coef, diff_norm) == FDiv(coef, FMul(diff_norm, diff_norm))

compute_coloumb_repulsive_force(cfg, b1, b2) ==
    Let(center_difference(b1, b2), LAMBDA d :
    Let(force_magnitude(cfg.repulsion_coef, d.diff_norm), LAMBDA magnitude :
    Let(scale(d.diff_unit, IF is_overlapping(b1, b2) THEN FMul(magnitude, cfg.overlap_scale)
                           ELSE magnitude), LAMBDA force_vec :
        Vec2D(FMul(force_vec.x, cfg.repulsion_xscale), force_vec.y))))

compute_level_force(cfg, child, parent) ==
    Let(FSub(child.position.y, FAdd(parent.position.y, cfg.level_offset)), LAMBDA y_diff :
        Vec2D(Zero, FNeg(IF FLt(y_diff, Zero)
                         THEN FMul(cfg.level_coef, PyMin(FAbs(y_diff), One))
                         ELSE Zero)))

\* the directions get_random_unit_vector may return (three of them)
RandomUnitVectors ==
    {Vec2D(One, Zero), Vec2D(Zero, One), Vec2D(FNeg(One), Zero)}

\* lines 310-323, after the early return of line 308
spring_force(cfg, b1, b2, random_unit) ==
    Let(center_difference(b1, b2), LAMBDA d :
    Let(FLe(d.diff_norm, EPS), LAMBDA fallback :
        [force |-> scale(IF fallback THEN random_unit ELSE d.diff_unit,
                         FNeg(FMul(cfg.attraction_coef, d.diff_norm))),
         rng |-> IF fallback THEN 1 ELSE 0]))

compute_attractive_force_mut(cfg, b1, b2, random_unit) ==
    spring_force(cfg, b1, b2, random_unit)
\* the force, and the number of calls of get_random_unit_vector made (rng)
compute_attractive_force(cfg, b1, b2, random_unit) ==
    IF is_overlapping(b1, b2) THEN [force |-> Vec2D0, rng |-> 0]
    ELSE spring_force(cfg, b1, b2, random_unit)

opposite_force_mut(src_force) == src_force
\* lines 279, 300, 331: src_force.copy().scale(-1)
opposite_force(src_force) == scale(src_force, FromInt(-1))

\* lines 280-281, 301-302, 332-333: both endpoints of a pair accumulate
add_pair_forces(boxes, src_idx, dst_idx, src_force) ==
    Let([boxes EXCEPT ![src_idx].force = add(boxes[src_idx].force, src_force)], LAMBDA first :
        [first EXCEPT ![dst_idx].force = add(first[dst_idx].force, opposite_force(src_force))])

clear_force_all(boxes) == [i \in DOMAIN boxes |-> [boxes[i] EXCEPT !.force = Vec2D0]]

RECURSIVE repulsive_from(_, _, _, _, _)
repulsive_from(cfg, boxes, n, src_idx, dst_idx) ==
    IF src_idx >= n THEN boxes
    ELSE IF dst_idx >= n THEN repulsive_from(cfg, boxes, n, src_idx + 1, src_idx + 2)
    ELSE LET src_force == compute_coloumb_repulsive_force(cfg, boxes[src_idx], boxes[dst_idx])
         IN repulsive_from(cfg, add_pair_forces(boxes, src_idx, dst_idx, src_force),
                           n, src_idx, dst_idx + 1)

compute_repulsive_all(cfg, boxes, n) == repulsive_from(cfg, boxes, n, 0, 1)

RECURSIVE level_force_from(_, _, _, _)
level_force_from(cfg, boxes, deps, k) ==
    IF k > Len(deps) THEN boxes
    ELSE LET child_idx == deps[k][1]
             parent_idx == deps[k][2]
             child_force == compute_level_force(cfg, boxes[child_idx], boxes[parent_idx])
         IN level_force_from(cfg, add_pair_forces(boxes, child_idx, parent_idx, child_force),
                             deps, k + 1)

compute_level_force_all(cfg, boxes, deps) == level_force_from(cfg, boxes, deps, 1)

\* randoms[k] is what get_random_unit_vector returns if connection k calls it
RECURSIVE attractive_from(_, _, _, _, _, _)
attractive_from(cfg, boxes, conns, randoms, k, calls) ==
    IF k > Len(conns) THEN [boxes |-> boxes, calls |-> calls]
    ELSE LET src_idx == conns[k][1]
             dst_idx == conns[k][2]
             got == compute_attractive_force(cfg, boxes[src_idx], boxes[dst_idx], randoms[k])
         IN attractive_from(cfg, add_pair_forces(boxes, src_idx, dst_idx, got.force),
                            conns, randoms, k + 1, calls + got.rng)

compute_attractive_all(cfg, boxes, conns, randoms) ==
    attractive_from(cfg, boxes, conns, randoms, 1, 0)

slowing_force(cfg, box) ==
    Let(l2norm(box.velocity), LAMBDA norm0 :
    Let(IF FLt(norm0, EPS) THEN EPS ELSE norm0, LAMBDA norm :
        scale(scale(box.velocity, FDiv(One, norm)), FNeg(FMul(cfg.slowing_coef, norm)))))

compute_slowing_all(cfg, boxes) ==
    [i \in DOMAIN boxes |->
        [boxes[i] EXCEPT !.force = add(boxes[i].force, slowing_force(cfg, boxes[i]))]]

limit_mut(cfg) == cfg.canvas_size
\* line 350
limit(cfg) == FSub(cfg.canvas_size, FromInt(2))

\* lines 355-356
clamp(cfg, x) == Let(limit(cfg), LAMBDA lim : PyMax(FNeg(lim), PyMin(lim, x)))

\* lines 352-356; force.scale changes the force in place and acceleration
\* is that same object
update_position(cfg, box) ==
    Let(scale(box.force, FDiv(One, cfg.mass)), LAMBDA acceleration :
    Let(add(box.velocity, scale(acceleration, cfg.time_step)), LAMBDA velocity :
    Let(add(box.position, scale(velocity, cfg.time_step)), LAMBDA position :
        RectBox(Vec2D(clamp(cfg, position.x), clamp(cfg, position.y)),
                velocity, acceleration, box.shape, acceleration))))

update_position_all(cfg, boxes) == [i \in DOMAIN boxes |-> update_position(cfg, boxes[i])]

(***************************************************************************)
(* GraphAnimation: construction and run_simulation                         *)
(***************************************************************************)
MaxBoxes == 3        \* nodes of a simulated graph
MaxSimRefs == 1      \* ids listed in related_to, and in depends_on, all nodes together
MaxTicks == 2        \* calls of run_simulation

\* np.pi
Pi == Dec(355, 113)

\* cos and sin of k * (2 * pi / n), in ten-thousandths, for n <= 6
TurnTable ==
    <<  <<  <<10000, 0>>  >>,
        <<  <<10000, 0>>, <<-10000, 0>>  >>,
        <<  <<10000, 0>>, <<-5000, 8660>>, <<-5000, -8660>>  >>,
        <<  <<10000, 0>>, <<0, 10000>>, <<-10000, 0>>, <<0, -10000>>  >>,
        <<  <<10000, 0>>, <<3090, 9511>>, <<-8090, 5878>>, <<-8090, -5878>>, <<3090, -9511>>  >>,
        <<  <<10000, 0>>, <<5000, 8660>>, <<-5000, 8660>>, <<-10000, 0>>, <<-5000, -8660>>,
            <<5000, -8660>>  >>  >>

np_cos(k, n) == Dec(TurnTable[n][k + 1][1], 10000)

np_sin(k, n) == Dec(TurnTable[n][k + 1][2], 10000)

\* lines 145-149, before the shuffle: position k of num_nodes
starting_position(separation, k, num_nodes) ==
    Vec2D(FMul(separation, np_cos(k, num_nodes)), FMul(separation, np_sin(k, num_nodes)))

\* lines 172-173
separation_of(cfg, num_nodes) ==
    LET max_width == PyMax(cfg.box_width, cfg.box_height)
    IN FDiv(FMul(FMul(FromInt(2), FromInt(num_nodes)), max_width), FMul(FromInt(2), Pi))

\* lines 220-235; order[i] is the place np.random.shuffle gave position i
create_inital_rectangles(separation, num_nodes, width, height, order) ==
    [i \in 0..(num_nodes - 1) |->
        LET start == starting_position(separation, order[i + 1], num_nodes)
            position == Vec2D(FSub(start.x, FDiv(width, FromInt(2))),
                              FSub(start.y, FDiv(height, FromInt(2))))
        IN RectBox(position, Vec2D0, Vec2D0, Vec2D(width, height), Vec2D0)]

\* a canvas smaller than the starting circle, and one smaller than the margin of 2
SmallCanvasConfig == [DefaultConfig EXCEPT !.canvas_size = FromInt(4)]

NarrowCanvasConfig == [DefaultConfig EXCEPT !.canvas_size = FromInt(1)]

CircleConfigs == {DefaultConfig, SmallCanvasConfig, NarrowCanvasConfig}

\* graphs that pass extract_connections, and what it returns for them
SimGraphs(n) ==
    {BuildGraph(n, [i \in 0..(n - 1) |-> i], rel \o dep, 0) :
        rel \in RefSeqs(n, {"related_to"}, 0..(n - 1), MaxSimRefs),
        dep \in RefSeqs(n, {"depends_on"}, 0..(n - 1), MaxSimRefs)}

InitGraphAndEdges ==
    /\ \E n \in 1..MaxBoxes : graph \in SimGraphs(n)
    /\ connections = sorted(extract_connections(graph).unique_connections)
    /\ dependencies \in ListsOfSet(extract_connections(graph).dependencies)
    /\ IdleLevel
    /\ pc = "clear_force_all"
    /\ ticks = 0
    /\ rng_calls = 0
    /\ ret = <<>>

\* GraphAnimation.__init__: the boxes stand on the starting circle, shuffled
Init ==
    /\ InitGraphAndEdges
    /\ config \in CircleConfigs
    /\ \E order \in ListsOfSet(0..(GraphLen(graph) - 1)) :
         node_boxes = create_inital_rectangles(separation_of(config, GraphLen(graph)),
                          GraphLen(graph), config.box_width, config.box_height, order)

ClearForceAll ==
    /\ pc = "clear_force_all"
    /\ ticks < MaxTicks
    /\ node_boxes' = clear_force_all(node_boxes)
    /\ pc' = "compute_repulsive_all"
    /\ UNCHANGED <<graph, connections, dependencies, child_map, unassigned, step,
                   config, ticks, rng_calls, ret>>

ComputeRepulsiveAll ==
    /\ pc = "compute_repulsive_all"
    /\ node_boxes' = compute_repulsive_all(config, node_boxes, GraphLen(graph))
    /\ pc' = "compute_level_force_all"
    /\ UNCHANGED <<graph, connections, dependencies, child_map, unassigned, step,
                   config, ticks, rng_calls, ret>>

ComputeLevelForceAll ==
    /\ pc = "compute_level_force_all"
    /\ node_boxes' = compute_level_force_all(config, node_boxes, dependencies)
    /\ pc' = "compute_attractive_all"
    /\ UNCHANGED <<graph, connections, dependencies, child_map, unassigned, step,
                   config, ticks, rng_calls, ret>>

ComputeAttractiveAll ==
    /\ pc = "compute_attractive_all"
    /\ \E randoms \in [1..Len(connections) -> RandomUnitVectors] :
         LET done == compute_attractive_all(config, node_boxes, connections, randoms)
         IN /\ node_boxes' = done.boxes
            /\ rng_calls' = rng_calls + done.calls
    /\ pc' = "compute_slowing_all"
    /\ UNCHANGED <<graph, connections, dependencies, child_map, unassigned, step,
                   config, ticks, ret>>

ComputeSlowingAll ==
    /\ pc = "compute_slowing_all"
    /\ node_boxes' = compute_slowing_all(config, node_boxes)
    /\ pc' = "update_position_all"
    /\ UNCHANGED <<graph, connections, dependencies, child_map, unassigned, step,
                   config, ticks, rng_calls, ret>>

UpdatePositionAll ==
    /\ pc = "update_position_all"
    /\ node_boxes' = update_position_all(config, node_boxes)
    /\ ticks' = ticks + 1
    /\ pc' = "clear_force_all"
    /\ UNCHANGED <<graph, connections, dependencies, child_map, unassigned, step,
                   config, rng_calls, ret>>

\* run_simulation, lines 360-365, one method after the other
Next ==
    \/ ClearForceAll
    \/ ComputeRepulsiveAll
    \/ ComputeLevelForceAll
    \/ ComputeAttractiveAll
    \/ ComputeSlowingAll
    \/ UpdatePositionAll

Spec == Init /\ [][Next]_vars

(***************************************************************************)
(* Claims about the simulation                                             *)
(***************************************************************************)
\* -limit <= x <= limit for limit = canvas_size - 2
WithinCanvasLimit(cfg, x) ==
    /\ FLe(FNeg(FSub(cfg.canvas_size, FromInt(2))), x)
    /\ FLe(x, FSub(cfg.canvas_size, FromInt(2)))

AllWithinCanvasLimit ==
    \A i \in DOMAIN node_boxes :
        /\ WithinCanvasLimit(config, node_boxes[i].position.x)
        /\ WithinCanvasLimit(config, node_boxes[i].position.y)

\* C5 as stated: after any number of calls of run_simulation, none included,
\* and for any config, every position.x and position.y lies within
\* [-(canvas_size - 2), canvas_size - 2].
C5_PositionsWithinLimit == AllWithinCanvasLimit

\* C5: after at least one call of run_simulation, and for a canvas_size of
\* at least 2, every position.x and position.y lies within
\* [-(canvas_size - 2), canvas_size - 2].
C5_ClampedAfterTick ==
    (ticks >= 1 /\ FLe(FromInt(2), config.canvas_size)) => AllWithinCanvasLimit

\* a tick has put a box that started outside the limit on the limit
C5_Witness ==
    /\ ticks >= 1
    /\ FLe(FromInt(2), config.canvas_size)
    /\ \E i \in DOMAIN node_boxes :
         FAbs(node_boxes[i].position.x) = FSub(config.canvas_size, FromInt(2))

\* what one pair's contribution leaves in two cleared accumulators: the force
\* in the first, its exact negation in the second
PairCancels(i, j, src_force) ==
    LET after == add_pair_forces(clear_force_all(node_boxes), i, j, src_force)
    IN IF i = j THEN after[i].force = Vec2D0
       ELSE /\ after[i].force = src_force
            /\ after[j].force = Vec2D(FNeg(src_force.x), FNeg(src_force.y))
            /\ add(after[i].force, after[j].force) = Vec2D0

RECURSIVE sum_of_forces(_, _)
sum_of_forces(boxes, n) ==
    IF n = 0 THEN Vec2D0 ELSE add(sum_of_forces(boxes, n - 1), boxes[n - 1].force)

\* C6, its first half: for every node pair's repulsion, every dependency
\* pair's leveling force and every connection pair's attraction, the force
\* added to one endpoint is the exact negation of the force added to the
\* other, so the two sum to (0,0); with two boxes the accumulators after the
\* repulsion pass are those two forces.
C6_PairwiseNegation ==
    /\ \A i, j \in DOMAIN node_boxes :
         i < j => PairCancels(i, j, compute_coloumb_repulsive_force(
                                        config, node_boxes[i], node_boxes[j]))
    /\ \A k \in 1..Len(dependencies) :
         PairCancels(dependencies[k][1], dependencies[k][2],
                     compute_level_force(config, node_boxes[dependencies[k][1]],
                                         node_boxes[dependencies[k][2]]))
    /\ \A k \in 1..Len(connections) : \A random_unit \in RandomUnitVectors :
         PairCancels(connections[k][1], connections[k][2],
                     compute_attractive_force(config, node_boxes[connections[k][1]],
                         node_boxes[connections[k][2]], random_unit).force)
    /\ (pc = "compute_level_force_all" /\ GraphLen(graph) = 2)
         => add(node_boxes[0].force, node_boxes[1].force) = Vec2D0

\* C6 as stated: the pairwise negation, and consequently the sum of all
\* boxes' accumulated forces before damping is (0,0).
C6_TotalForceZero ==
    /\ C6_PairwiseNegation
    /\ pc = "compute_slowing_all"
         => sum_of_forces(node_boxes, GraphLen(graph)) = Vec2D0

\* the three passes of a tick are done, a dependency pair and a connection
\* pair of distinct boxes each got a non-zero force
C6_Witness ==
    /\ pc = "compute_slowing_all"
    /\ \E k \in 1..Len(dependencies) :
         /\ dependencies[k][1] # dependencies[k][2]
         /\ compute_level_force(config, node_boxes[dependencies[k][1]],
                                node_boxes[dependencies[k][2]]) # Vec2D0
    /\ \E k \in 1..Len(connections) :
         /\ connections[k][1] # connections[k][2]
         /\ compute_attractive_force(config, node_boxes[connections[k][1]],
                node_boxes[connections[k][2]], Vec2D(One, Zero)).force # Vec2D0
    /\ \E i \in DOMAIN node_boxes : node_boxes[i].force # Vec2D0

(***************************************************************************)
(* RectBox.is_overlapping and compute_coloumb_repulsive_force on their own *)
(***************************************************************************)
\* corner coordinates of the boxes tried
Coords == {-3, -1, 0, 1, 2, 3, 4}

Shapes == {Vec2D(FromInt(2), FromInt(1)), Vec2D(FromInt(1), FromInt(1))}

BoxAt(x, y, shape) ==
    RectBox(Vec2D(FromInt(x), FromInt(y)), Vec2D0, Vec2D0, shape, Vec2D0)

\* two pairs of boxes, (0, 1) and (2, 3); boxes 0 and 2 stand at the origin
InitGeometry ==
    /\ graph = <<>>
    /\ connections = <<>>
    /\ dependencies = <<>>
    /\ IdleLevel
    /\ pc = "boxes"
    /\ ticks = 0
    /\ rng_calls = 0
    /\ ret = <<>>
    /\ config = DefaultConfig
    /\ \E sa \in Shapes, sb \in Shapes, p \in Coords \X Coords, q \in Coords \X Coords :
         node_boxes = [i \in 0..3 |->
                          IF i = 0 \/ i = 2 THEN BoxAt(0, 0, sa)
                          ELSE IF i = 1 THEN BoxAt(p[1], p[2], sb)
                          ELSE BoxAt(q[1], q[2], sb)]

\* A.is_overlapping(B) and B.is_overlapping(A)
IsOverlapping ==
    /\ pc = "boxes"
    /\ ret' = <<is_overlapping(node_boxes[0], node_boxes[1]),
                is_overlapping(node_boxes[1], node_boxes[0])>>
    /\ pc' = "is_overlapping"
    /\ UNCHANGED <<graph, connections, dependencies, child_map, unassigned, step,
                   config, node_boxes, ticks, rng_calls>>

\* compute_coloumb_repulsive_force of the first pair and of the second
ComputeColoumbRepulsiveForce ==
    /\ pc = "boxes"
    /\ ret' = <<compute_coloumb_repulsive_force(config, node_boxes[0], node_boxes[1]),
                compute_coloumb_repulsive_force(config, node_boxes[2], node_boxes[3])>>
    /\ pc' = "compute_coloumb_repulsive_force"
    /\ UNCHANGED <<graph, connections, dependencies, child_map, unassigned, step,
                   config, node_boxes, ticks, rng_calls>>

NextGeometry == IsOverlapping \/ ComputeColoumbRepulsiveForce

SpecGeometry == InitGeometry /\ [][NextGeometry]_vars

\* the closed rectangles meet, and an edge of one lies on the line of the
\* opposite edge of the other
Touching(a, b) ==
    /\ FLe(a.position.x, FAdd(b.position.x, b.shape.x))
    /\ FLe(b.position.x, FAdd(a.position.x, a.shape.x))
    /\ FLe(a.position.y, FAdd(b.position.y, b.shape.y))
    /\ FLe(b.position.y, FAdd(a.position.y, a.shape.y))
    /\ \/ FAdd(a.position.x, a.shape.x) = b.position.x
       \/ FAdd(b.position.x, b.shape.x) = a.position.x
       \/ FAdd(a.position.y, a.shape.y) = b.position.y
       \/ FAdd(b.position.y, b.shape.y) = a.position.y

\* C7: A.is_overlapping(B) equals B.is_overlapping(A), and it is true for two
\* boxes of identical position and shape and for boxes that only touch along
\* an edge or at a corner.
C7_OverlapSymmetric ==
    pc = "is_overlapping" =>
        /\ ret[1] = ret[2]
        /\ node_boxes[0] = node_boxes[1] => ret[1]
        /\ Touching(node_boxes[0], node_boxes[1]) => ret[1]

\* the two boxes touch at one corner only, and each call said they overlap
C7_Witness ==
    /\ pc = "is_overlapping"
    /\ FAdd(node_boxes[0].position.x, node_boxes[0].shape.x) = node_boxes[1].position.x
    /\ FAdd(node_boxes[0].position.y, node_boxes[0].shape.y) = node_boxes[1].position.y
    /\ ret[1]
    /\ ret[2]

\* the boxes are identical, and each call said they overlap
C7_IdenticalWitness ==
    /\ pc = "is_overlapping"
    /\ node_boxes[0] = node_boxes[1]
    /\ ret[1]

PairApart(i, j) == ~ is_overlapping(node_boxes[i], node_boxes[j])

center_distance(i, j) == center_difference(node_boxes[i], node_boxes[j]).diff_norm

\* the differences of the centres of the two pairs point the same way
SameDirection ==
    LET u == center_difference(node_boxes[0], node_boxes[1]).diff
        v == center_difference(node_boxes[2], node_boxes[3]).diff
    IN /\ FSub(FMul(u.x, v.y), FMul(u.y, v.x)) = Zero
       /\ FLt(Zero, FAdd(FMul(u.x, v.x), FMul(u.y, v.y)))

FirstPairCloser ==
    /\ pc = "compute_coloumb_repulsive_force"
    /\ PairApart(0, 1)
    /\ PairApart(2, 3)
    /\ FLt(center_distance(0, 1), center_distance(2, 3))

EpsBoxConfig == [DefaultConfig EXCEPT !.box_width = EPS, !.box_height = EPS]

TwoEpsBoxConfig ==
    [DefaultConfig EXCEPT !.box_width = FMul(FromInt(2), EPS),
                          !.box_height = FMul(FromInt(2), EPS)]

AnyBoxConfigs == {DefaultConfig, EpsBoxConfig, TwoEpsBoxConfig}

\* x + EPS rounds to a float below RazorRight, the centres' distance rounds to EPS
RazorLeft == FMul(EPS, Dec(-63, 64))

RazorRight == FMul(EPS, Round(2 ^ (Precision - 1) + 1, -(Precision + 5)))

FirstBoxPositions ==
    {Vec2D(Zero, Zero), Vec2D(RazorLeft, Zero), Vec2D(FMul(FromInt(2), RazorLeft), Zero),
     Vec2D(One, One)}

SecondBoxPositions ==
    {Vec2D(x, y) : x \in {Zero, RazorRight, FMul(FromInt(2), RazorRight), EPS, One, FromInt(3)},
                   y \in {Zero, One}}

InitAnyBoxes ==
    /\ graph \in SimGraphs(2)
    /\ connections = sorted(extract_connections(graph).unique_connections)
    /\ dependencies \in ListsOfSet(extract_connections(graph).dependencies)
    /\ IdleLevel
    /\ pc = "clear_force_all"
    /\ ticks = 0
    /\ rng_calls = 0
    /\ ret = <<>>
    /\ config \in AnyBoxConfigs
    /\ \E first \in FirstBoxPositions, second \in SecondBoxPositions :
         node_boxes = [i \in 0..1 |->
                          RectBox(IF i = 0 THEN first ELSE second, Vec2D0, Vec2D0,
                                  Vec2D(config.box_width, config.box_height), Vec2D0)]

SpecAnyBoxes == InitAnyBoxes /\ [][Next]_vars

\* every box has the config's width and height, both at least k * EPS
BoxesAtLeast(k) ==
    /\ FLe(FMul(FromInt(k), EPS), config.box_width)
    /\ FLe(FMul(FromInt(k), EPS), config.box_height)
    /\ \A i \in DOMAIN node_boxes :
         node_boxes[i].shape = Vec2D(config.box_width, config.box_height)

\* two boxes whose centres are within EPS overlap
CloseCentresOverlap ==
    \A i, j \in DOMAIN node_boxes :
        FLe(center_difference(node_boxes[i], node_boxes[j]).diff_norm, EPS)
            => is_overlapping(node_boxes[i], node_boxes[j])

\* whatever get_random_unit_vector would return, the attraction pass leaves
\* the same boxes and never calls it
AttractionIgnoresRandomness ==
    pc = "compute_attractive_all" =>
        \A r1, r2 \in [1..Len(connections) -> RandomUnitVectors] :
            /\ compute_attractive_all(config, node_boxes, connections, r1)
                 = compute_attractive_all(config, node_boxes, connections, r2)
            /\ compute_attractive_all(config, node_boxes, connections, r1).calls = 0

\* C10 as stated: with boxes of one width and height, both at least EPS, two
\* boxes whose centres are within EPS overlap, so compute_attractive_force
\* never takes the random direction, no tick consumes randomness and a tick's
\* result does not depend on the random source.
C10_NoFallbackFromEps ==
    BoxesAtLeast(1) => (rng_calls = 0 /\ CloseCentresOverlap /\ AttractionIgnoresRandomness)

\* C10: with boxes of one width and height, both at least 2 * EPS, two boxes
\* whose centres are within EPS overlap, so compute_attractive_force never
\* takes the random direction, no tick consumes randomness and a tick's result
\* does not depend on the random source.
C10_NoFallbackFromTwoEps ==
    BoxesAtLeast(2) => (rng_calls = 0 /\ CloseCentresOverlap /\ AttractionIgnoresRandomness)

\* two connected boxes with one centre: the attraction pass is done and
\* get_random_unit_vector was not called
C10_Witness ==
    /\ BoxesAtLeast(2)
    /\ pc = "compute_slowing_all"
    /\ \E k \in 1..Len(connections) :
         /\ connections[k][1] # connections[k][2]
         /\ get_center(node_boxes[connections[k][1]]) = get_center(node_boxes[connections[k][2]])
    /\ rng_calls = 0

====
